---- MODULE Spec2Model ----
(***************************************************************************)
(* Model of the conversion core of NFA_DFA.py: epsilon_closure_of,         *)
(* remove_epsilon and nfa_to_dfa, run in the order of the script's lines   *)
(* 209-210.  Python dicts are functions whose DOMAIN is the set of keys;   *)
(* Python lists are sequences; sets and frozensets are sets.  The reserved *)
(* symbol written U+03B5 in the source is the string "eps" here.           *)
(***************************************************************************)
EXTENDS Integers, Sequences, FiniteSets, TLC

VARIABLES
    states,        \* nfa_states: list of state names
    alphabet,      \* alphabet: list of symbols, in declared order
    enfa,          \* nfa_transitions: dict (state, symbol) -> set of states
    start_state,   \* start_state
    final_states,  \* final_states (only membership is ever used)
    pc,            \* position in the script / in the running function
    ci,            \* index of the state the comprehension of line 22 is at
    state,         \* epsilon_closure_of: parameter state
    stack,         \* epsilon_closure_of: local stack
    closure,       \* epsilon_closure_of: local closure
    closures,      \* remove_epsilon: closures
    nfa_no_e,      \* remove_epsilon: nfa_no_e
    nfa_finals,    \* remove_epsilon: nfa_finals
    dfa_start,     \* nfa_to_dfa: dfa_start
    dfa_states,    \* nfa_to_dfa: dfa_states
    unmarked,      \* nfa_to_dfa: unmarked (the worklist)
    dfa_trans,     \* nfa_to_dfa: dfa_trans
    dfa_finals,    \* nfa_to_dfa: dfa_finals
    S,             \* nfa_to_dfa: the composite state popped at line 48
    ai,            \* nfa_to_dfa: index of the symbol the loop of line 49 is at
    enqueued,      \* history: every value appended to unmarked, in order
    dequeued       \* history: every value popped from unmarked, in order

vars == <<states, alphabet, enfa, start_state, final_states, pc, ci, state,
          stack, closure, closures, nfa_no_e, nfa_finals, dfa_start,
          dfa_states, unmarked, dfa_trans, dfa_finals, S, ai, enqueued,
          dequeued>>

inputs == <<states, alphabet, enfa, start_state, final_states>>

\* ------------------------------------------------------------------ bounds

MaxStates == 3
MaxEdges == 3
MaxLen == 3

\* ----------------------------------------------------------------- helpers

EPS == "eps"

QNames == <<"q0", "q1", "q2", "q3", "q4">>

Range(seq) == {seq[i] : i \in DOMAIN seq}

EmptyDict == [k \in {} |-> {}]

\* dict.get(key, set())
DictGet(d, k) == IF k \in DOMAIN d THEN d[k] ELSE {}

\* d[k] = v
DictSet(d, k, v) == [x \in DOMAIN d \cup {k} |-> IF x = k THEN v ELSE d[x]]

\* every order in which a Python set can be iterated
Orders(T) == {f \in [1..Cardinality(T) -> T] : Range(f) = T}

RECURSIVE KSubsets(_, _)
KSubsets(T, k) ==
    IF k = 0 THEN {{}}
    ELSE LET P == KSubsets(T, k - 1) IN P \cup {p \cup {e} : p \in P, e \in T}

\* the dict the input layer builds from a set of (state, symbol, next) rows
DictOfEdges(E) ==
    [k \in {<<e[1], e[2]>> : e \in E} |->
        {e[3] : e \in {x \in E : x[1] = k[1] /\ x[2] = k[2]}}]

\* --------------------------------------------------------- the input layer

Syms == {"a", "b", EPS}

StateLists == {SubSeq(QNames, 1, n) : n \in 1..MaxStates}

\* declared alphabets: both orders, one of them listing the reserved symbol
\* (the upload path takes every value of the Input column, line 174)
Alphabets == {<<"a", "b">>, <<"b", EPS, "a">>}

\* the checks of lines 198-203
Validated ==
    /\ start_state \in Range(states)
    /\ final_states \subseteq Range(states)
    /\ \A k \in DOMAIN enfa : enfa[k] \subseteq Range(states)

\* Example 1: the defaults of the manual form (states q0,q1, alphabet a,b,
\* start q0, finals q1) with the four transition rows of the example
Example1Edges ==
    {<<"q0", "a", "q0">>, <<"q0", "a", "q1">>, <<"q0", "b", "q0">>,
     <<"q1", "b", "q1">>}

IsExample1 ==
    /\ states = <<"q0", "q1">>
    /\ alphabet = <<"a", "b">>
    /\ enfa = DictOfEdges(Example1Edges)
    /\ start_state = "q0"
    /\ final_states = {"q1"}

\* ------------------------------------------------ epsilon_closure_of pieces

\* closure = set(): the state itself left out
FirstClosureEmpty(st) == {}

\* line 12
FirstClosure(st) == {st}

\* the parameter state read where the popped s is meant
NewOnStackOfState(s, cl) == DictGet(enfa, <<state, EPS>>) \ cl

\* lines 15-16: the successors of s on the reserved symbol not yet in closure
NewOnStack(s, cl) == DictGet(enfa, <<s, EPS>>) \ cl

\* ---------------------------------------------------- remove_epsilon pieces

\* the check of line 29 left out
SkipInElimNever(a) == FALSE

\* line 29
SkipInElim(a) == a = EPS

\* the move taken from s alone, not from the members of closures[s]
MoveFromState(s, a) == DictGet(enfa, <<s, a>>)

\* lines 31-33
Move(s, a) == UNION {DictGet(enfa, <<c, a>>) : c \in closures[s]}

\* lines 35-37
Dest(move) == UNION {closures[m] : m \in move}

\* line 34
Recorded(move) == move # {}

\* lines 26-27
ElimFinals == {s \in Range(states) : \E f \in final_states : f \in closures[s]}

\* lines 28-38, over every s of line 25
ElimTrans ==
    [k \in {x \in Range(states) \X Range(alphabet) :
               ~SkipInElim(x[2]) /\ Recorded(Move(x[1], x[2]))}
       |-> Dest(Move(k[1], k[2]))]

\* -------------------------------------------------------- nfa_to_dfa pieces

\* pop(0): the first element taken
PopIndexFirst(unm) == 1

\* line 48: list.pop() takes the last element
PopIndex(unm) == Len(unm)

\* unmarked[-1] read, nothing removed
RemoveNothing(seq, i) == seq

\* line 48: pop removes the element it returns
RemoveAt(seq, i) == SubSeq(seq, 1, i - 1) \o SubSeq(seq, i + 1, Len(seq))

\* line 50
SkipInDfa(a) == a = EPS

\* the union taken over every state, not over the members of S
NxtOfAll(Sx, a) == UNION {DictGet(nfa_no_e, <<s, a>>) : s \in Range(states)}

\* lines 52-54
Nxt(Sx, a) == UNION {DictGet(nfa_no_e, <<s, a>>) : s \in Sx}

\* the check of line 55 left out
HasSuccessorAlways(nxt) == TRUE

\* line 55
HasSuccessor(nxt) == nxt # {}

\* membership tested in the worklist, not in the discovered list
IsNewOnWorklist(nxt_f, ds) == nxt_f \notin Range(unmarked)

\* line 58
IsNew(nxt_f, ds) == nxt_f \notin Range(ds)

\* all() where any() is meant
DfaFinalsAll(ds, fs) == {X \in Range(ds) : \A s \in X : s \in fs}

\* lines 61-63
DfaFinals(ds, fs) == {X \in Range(ds) : \E s \in X : s \in fs}

\* ------------------------------------------------------------------- Init

Locals0 ==
    /\ ci = 1
    /\ stack = <<>>
    /\ closure = {}
    /\ closures = EmptyDict
    /\ nfa_no_e = EmptyDict
    /\ nfa_finals = {}
    /\ dfa_start = {}
    /\ dfa_states = <<>>
    /\ unmarked = <<>>
    /\ dfa_trans = EmptyDict
    /\ dfa_finals = {}
    /\ S = {}
    /\ ai = 0
    /\ enqueued = <<>>
    /\ dequeued = <<>>

\* a validated automaton: any one with at most MaxStates states and MaxEdges
\* transition rows, or Example 1
Init ==
    /\ \/ /\ states \in StateLists
          /\ alphabet \in Alphabets
          /\ enfa \in {DictOfEdges(E) :
                         E \in KSubsets(Range(states) \X Syms \X Range(states),
                                        MaxEdges)}
          /\ start_state \in Range(states)
          /\ final_states \in SUBSET Range(states)
       \/ IsExample1
    /\ pc = "closures"
    /\ state = ""
    /\ Locals0

\* ---------------------------------------------------------------- actions

\* line 22, one state of the comprehension: call epsilon_closure_of, lines 11-12
ClosureCall ==
    /\ pc = "closures"
    /\ ci <= Len(states)
    /\ state' = states[ci]
    /\ stack' = <<states[ci]>>
    /\ closure' = FirstClosure(states[ci])
    /\ pc' = "closure_loop"
    /\ UNCHANGED <<inputs, ci, closures, nfa_no_e, nfa_finals, dfa_start,
                   dfa_states, unmarked, dfa_trans, dfa_finals, S, ai,
                   enqueued, dequeued>>

\* lines 13-18: one iteration of the while loop; the for loop visits the
\* set in whatever order the build iterates it
ClosureStep ==
    /\ pc = "closure_loop"
    /\ stack # <<>>
    /\ LET s == stack[Len(stack)]
           new == NewOnStack(s, closure)
       IN /\ closure' = closure \cup new
          /\ \E ord \in Orders(new) :
                stack' = SubSeq(stack, 1, Len(stack) - 1) \o ord
    /\ UNCHANGED <<inputs, pc, ci, state, closures, nfa_no_e, nfa_finals,
                   dfa_start, dfa_states, unmarked, dfa_trans, dfa_finals, S,
                   ai, enqueued, dequeued>>

\* line 19 back into line 22: closures[s] = the returned set
ClosureReturn ==
    /\ pc = "closure_loop"
    /\ stack = <<>>
    /\ closures' = DictSet(closures, state, closure)
    /\ ci' = ci + 1
    /\ pc' = "closures"
    /\ UNCHANGED <<inputs, state, stack, closure, nfa_no_e, nfa_finals,
                   dfa_start, dfa_states, unmarked, dfa_trans, dfa_finals, S,
                   ai, enqueued, dequeued>>

\* lines 23-39: the rest of remove_epsilon
RemoveEpsilon ==
    /\ pc = "closures"
    /\ ci > Len(states)
    /\ nfa_no_e' = ElimTrans
    /\ nfa_finals' = ElimFinals
    /\ pc' = "dfa_init"
    /\ UNCHANGED <<inputs, ci, state, stack, closure, closures, dfa_start,
                   dfa_states, unmarked, dfa_trans, dfa_finals, S, ai,
                   enqueued, dequeued>>

\* lines 42-46
NfaToDfaInit ==
    /\ pc = "dfa_init"
    /\ dfa_start' = {start_state}
    /\ dfa_states' = <<{start_state}>>
    /\ unmarked' = <<{start_state}>>
    /\ enqueued' = <<{start_state}>>
    /\ dfa_trans' = EmptyDict
    /\ dfa_finals' = {}
    /\ pc' = "dfa_loop"
    /\ UNCHANGED <<inputs, ci, state, stack, closure, closures, nfa_no_e,
                   nfa_finals, S, ai, dequeued>>

\* lines 47-48
Pop ==
    /\ pc = "dfa_loop"
    /\ unmarked # <<>>
    /\ S' = unmarked[PopIndex(unmarked)]
    /\ unmarked' = RemoveAt(unmarked, PopIndex(unmarked))
    /\ dequeued' = Append(dequeued, unmarked[PopIndex(unmarked)])
    /\ ai' = 1
    /\ pc' = IF Len(alphabet) = 0 THEN "dfa_loop" ELSE "dfa_scan"
    /\ UNCHANGED <<inputs, ci, state, stack, closure, closures, nfa_no_e,
                   nfa_finals, dfa_start, dfa_states, dfa_trans, dfa_finals,
                   enqueued>>

\* lines 49-60: one iteration of the for loop over the alphabet
Scan ==
    /\ pc = "dfa_scan"
    /\ ai <= Len(alphabet)
    /\ LET a == alphabet[ai]
           nxt == Nxt(S, a)
           rec == ~SkipInDfa(a) /\ HasSuccessor(nxt)
           new == rec /\ IsNew(nxt, dfa_states)
       IN /\ dfa_trans' = IF rec THEN DictSet(dfa_trans, <<S, a>>, nxt)
                          ELSE dfa_trans
          /\ dfa_states' = IF new THEN Append(dfa_states, nxt) ELSE dfa_states
          /\ unmarked' = IF new THEN Append(unmarked, nxt) ELSE unmarked
          /\ enqueued' = IF new THEN Append(enqueued, nxt) ELSE enqueued
    /\ ai' = ai + 1
    /\ pc' = IF ai = Len(alphabet) THEN "dfa_loop" ELSE "dfa_scan"
    /\ UNCHANGED <<inputs, ci, state, stack, closure, closures, nfa_no_e,
                   nfa_finals, dfa_start, dfa_finals, S, dequeued>>

\* lines 61-64, with final_states = nfa_finals as line 210 passes it
Finish ==
    /\ pc = "dfa_loop"
    /\ unmarked = <<>>
    /\ dfa_finals' = DfaFinals(dfa_states, nfa_finals)
    /\ pc' = "done"
    /\ UNCHANGED <<inputs, ci, state, stack, closure, closures, nfa_no_e,
                   nfa_finals, dfa_start, dfa_states, unmarked, dfa_trans, S,
                   ai, enqueued, dequeued>>

Next ==
    \/ ClosureCall
    \/ ClosureStep
    \/ ClosureReturn
    \/ RemoveEpsilon
    \/ NfaToDfaInit
    \/ Pop
    \/ Scan
    \/ Finish

Spec == Init /\ [][Next]_vars

\* the automata of Init with one final set each, the last state alone:
\* final_states is read by line 26 only and steers no loop
InitFair ==
    /\ states \in StateLists
    /\ alphabet \in Alphabets
    /\ enfa \in {DictOfEdges(E) :
                   E \in KSubsets(Range(states) \X Syms \X Range(states),
                                  MaxEdges)}
    /\ start_state \in Range(states)
    /\ final_states = {states[Len(states)]}
    /\ pc = "closures"
    /\ state = ""
    /\ Locals0

\* the script is one thread that runs to completion: a step that can be
\* taken is taken
FairSpec == InitFair /\ [][Next]_vars /\ WF_vars(Next)

\* ------------------------------------ epsilon_closure_of called on its own

\* a state name that is not in any state list
Outsider == "qx"

\* the arguments of epsilon_closure_of(state, enfa): any transition dict the
\* input layer builds, and any state name; what the function never reads is
\* left at a fixed value
InitClosure ==
    /\ states \in StateLists
    /\ alphabet = <<"a", "b">>
    /\ enfa \in {DictOfEdges(E) :
                   E \in KSubsets(Range(states) \X Syms \X Range(states),
                                  MaxEdges)}
    /\ start_state = states[1]
    /\ final_states = {}
    /\ state \in Range(states) \cup {Outsider}
    /\ pc = "direct_call"
    /\ Locals0

\* lines 11-12
DirectCall ==
    /\ pc = "direct_call"
    /\ stack' = <<state>>
    /\ closure' = FirstClosure(state)
    /\ pc' = "closure_loop"
    /\ UNCHANGED <<inputs, ci, state, closures, nfa_no_e, nfa_finals,
                   dfa_start, dfa_states, unmarked, dfa_trans, dfa_finals, S,
                   ai, enqueued, dequeued>>

\* line 19: closure is the value returned
DirectReturn ==
    /\ pc = "closure_loop"
    /\ stack = <<>>
    /\ pc' = "returned"
    /\ UNCHANGED <<inputs, ci, state, stack, closure, closures, nfa_no_e,
                   nfa_finals, dfa_start, dfa_states, unmarked, dfa_trans,
                   dfa_finals, S, ai, enqueued, dequeued>>

NextClosure ==
    \/ DirectCall
    \/ ClosureStep
    \/ DirectReturn

SpecClosure == InitClosure /\ [][NextClosure]_vars

\* ------------------------------------------------- reference definitions

\* the states reachable from a set T by zero or more transitions on the
\* reserved symbol, as a least fixpoint
RECURSIVE EpsReach(_)
EpsReach(T) ==
    LET T2 == T \cup UNION {DictGet(enfa, <<t, EPS>>) : t \in T}
    IN IF T2 = T THEN T ELSE EpsReach(T2)

\* ------------------------------------------------------------------ C4

\* C4: every set epsilon_closure_of returns, and every entry closures[s] of
\* the Closure Table, is exactly the set of states reachable from s by zero
\* or more transitions on the reserved symbol: it contains s, nothing that is
\* not reachable, and the closure of each of its members.
C4_ClosureExact ==
    /\ (pc = "closure_loop" /\ stack = <<>>) =>
           (closure = EpsReach({state}) /\ state \in closure)
    /\ \A s \in DOMAIN closures :
           /\ s \in closures[s]
           /\ closures[s] = EpsReach({s})
           /\ \A t \in closures[s] :
                  t \in DOMAIN closures => closures[t] \subseteq closures[s]

\* the table is complete, one state has no transition on the reserved symbol
\* and closes to itself, another closes to three states
C4_Witness ==
    /\ pc = "done"
    /\ DOMAIN closures = Range(states)
    /\ \E s \in Range(states) :
           <<s, EPS>> \notin DOMAIN enfa /\ closures[s] = {s}
    /\ \E s \in Range(states) : Cardinality(closures[s]) = 3

\* ------------------------------------------------------------------ C6

\* C6 as stated: epsilon_closure_of called with a state that is not in the
\* state list never returns a closure set (it fails instead).
C6_Original == (state \notin Range(states)) => pc # "returned"

\* C6 amended: epsilon_closure_of called with a state that is not in the
\* state list returns normally, and what it returns is the set holding
\* that state alone (the transition dict has no key for it).
C6_OutsiderClosure ==
    (pc = "returned" /\ state \notin Range(states)) => closure = {state}

C6_Witness ==
    /\ pc = "returned"
    /\ state \notin Range(states)
    /\ \E k \in DOMAIN enfa : k[2] = EPS

\* ------------------------------------------------------------------ C1

\* the symbols a word is made of
Sigma == Range(alphabet) \ {EPS}

Words == UNION {[1..n -> Sigma] : n \in 0..MaxLen}

\* the original automaton: close, then for each symbol move and close
RECURSIVE EnfaRun(_, _)
EnfaRun(T, w) ==
    IF w = <<>> THEN T
    ELSE EnfaRun(EpsReach(UNION {DictGet(enfa, <<q, Head(w)>>) : q \in T}),
                 Tail(w))

EnfaAccepts(w) == EnfaRun(EpsReach({start_state}), w) \cap final_states # {}

\* the epsilon-free automaton (nfa_no_e, nfa_finals) from start_state
RECURSIVE NfaRun(_, _)
NfaRun(T, w) ==
    IF w = <<>> THEN T
    ELSE NfaRun(UNION {DictGet(nfa_no_e, <<q, Head(w)>>) : q \in T}, Tail(w))

NfaAccepts(w) == NfaRun({start_state}, w) \cap nfa_finals # {}

\* the DFA: every symbol must have a recorded entry
RECURSIVE DfaRun(_, _)
DfaRun(X, w) ==
    IF w = <<>> THEN X \in dfa_finals
    ELSE IF <<X, Head(w)>> \in DOMAIN dfa_trans
         THEN DfaRun(dfa_trans[<<X, Head(w)>>], Tail(w))
         ELSE FALSE

DfaAccepts(w) == DfaRun(dfa_start, w)

\* C1: for a validated automaton whose alphabet does not list the reserved
\* symbol, the DFA and the epsilon-free NFA accept exactly the words (up to
\* length MaxLen) that the original automaton accepts.
C1_SameLanguage ==
    (pc = "done" /\ Validated /\ EPS \notin Range(alphabet)) =>
        \A w \in Words :
            /\ DfaAccepts(w) = EnfaAccepts(w)
            /\ NfaAccepts(w) = EnfaAccepts(w)

\* a converted automaton that has a transition on the reserved symbol leaving
\* the target of a symbol move, accepts a word of two symbols and rejects
\* another
C1_Witness ==
    /\ pc = "done"
    /\ EPS \notin Range(alphabet)
    /\ \E k \in DOMAIN enfa : k[2] # EPS /\ \E m \in enfa[k] :
           <<m, EPS>> \in DOMAIN enfa
    /\ \E w \in Words : Len(w) = 2 /\ EnfaAccepts(w) /\ DfaAccepts(w)
    /\ \E w \in Words : Len(w) = 2 /\ ~EnfaAccepts(w) /\ ~DfaAccepts(w)

\* ------------------------------------------------------------------ C3

Q0 == {"q0"}
Q1 == {"q1"}
Q01 == {"q0", "q1"}

\* C3 as stated: Example 1 yields the three DFA states {q0}, {q0,q1}, {q1},
\* an entry ({q1},b) -> {q1}, none for ({q1},a), and finals {q0,q1}, {q1}.
C3_Original ==
    (pc = "done" /\ IsExample1) =>
        /\ Range(dfa_states) = {Q0, Q01, Q1}
        /\ dfa_start = Q0
        /\ dfa_trans = [k \in {<<Q0, "a">>, <<Q0, "b">>, <<Q01, "a">>,
                               <<Q01, "b">>, <<Q1, "b">>} |->
                           IF k = <<Q0, "b">> THEN Q0
                           ELSE IF k = <<Q1, "b">> THEN Q1 ELSE Q01]
        /\ dfa_finals = {Q01, Q1}

\* C3 amended: Example 1 yields exactly the DFA states {q0} (start) and
\* {q0,q1}, the four entries ({q0},a) -> {q0,q1}, ({q0},b) -> {q0},
\* ({q0,q1},a) -> {q0,q1}, ({q0,q1},b) -> {q0,q1}, no entry for {q1}, and
\* the final set { {q0,q1} }.
C3_Example1 ==
    (pc = "done" /\ IsExample1) =>
        /\ dfa_states = <<Q0, Q01>>
        /\ dfa_start = Q0
        /\ dfa_trans = [k \in {<<Q0, "a">>, <<Q0, "b">>, <<Q01, "a">>,
                               <<Q01, "b">>} |->
                           IF k = <<Q0, "b">> THEN Q0 ELSE Q01]
        /\ dfa_finals = {Q01}

C3_Witness == pc = "done" /\ IsExample1 /\ nfa_finals = {"q1"}

\* ------------------------------------------------------------------ C7

\* C7 as stated: when the alphabet lists the reserved symbol, remove_epsilon
\* does not return and nothing after it runs.
C7_Original ==
    (EPS \in Range(alphabet)) =>
        pc \notin {"dfa_init", "dfa_loop", "dfa_scan", "done"}

\* C7 amended: when the alphabet lists the reserved symbol, the conversion
\* skips that symbol and runs on: no key of nfa_no_e or of dfa_trans carries
\* the reserved symbol.
C7_EpsSkipped ==
    (EPS \in Range(alphabet)) =>
        /\ \A k \in DOMAIN nfa_no_e : k[2] # EPS
        /\ \A k \in DOMAIN dfa_trans : k[2] # EPS

C7_Witness ==
    /\ pc = "done"
    /\ EPS \in Range(alphabet)
    /\ \E k \in DOMAIN enfa : k[2] = EPS
    /\ DOMAIN nfa_no_e # {}
    /\ Len(dfa_states) >= 2

\* ------------------------------------------------------------------ C8

DfaDestinations == {dfa_trans[k] : k \in DOMAIN dfa_trans}

\* C8: for a validated automaton, every composite state in dfa_states, on
\* the worklist or recorded as a destination is a non-empty subset of the
\* state set, and a pair (composite state, symbol) without successor has no
\* entry in dfa_trans.
C8_CompositeSafety ==
    Validated =>
        /\ \A X \in Range(dfa_states) \cup Range(unmarked) \cup DfaDestinations :
               X # {} /\ X \subseteq Range(states)
        /\ \A k \in DOMAIN dfa_trans :
               UNION {DictGet(nfa_no_e, <<s, k[2]>>) : s \in k[1]} # {}

\* a finished DFA with two states, one of which has no successor on a symbol
C8_Witness ==
    /\ pc = "done"
    /\ Len(dfa_states) >= 2
    /\ \E X \in Range(dfa_states) : \E a \in Sigma :
           <<X, a>> \notin DOMAIN dfa_trans

\* ------------------------------------------------------------------ C9

\* the states reachable from start_state in the original automaton by
\* transitions on alphabet symbols and on the reserved symbol
RECURSIVE EnfaReach(_)
EnfaReach(T) ==
    LET T2 == T \cup UNION {DictGet(enfa, <<q, a>>) :
                               q \in T, a \in Range(alphabet) \cup {EPS}}
    IN IF T2 = T THEN T ELSE EnfaReach(T2)

\* the composite states reachable from dfa_start through dfa_trans
RECURSIVE DfaReach(_)
DfaReach(T) ==
    LET T2 == T \cup {dfa_trans[k] : k \in {x \in DOMAIN dfa_trans : x[1] \in T}}
    IN IF T2 = T THEN T ELSE DfaReach(T2)

\* C9: for a validated automaton, a composite state of dfa_states holds only
\* states reachable from the start state in the original automaton, and
\* every composite state is reachable from dfa_start through dfa_trans.
C9_OnlyReachable ==
    Validated =>
        /\ \A X \in Range(dfa_states) : X \subseteq EnfaReach({start_state})
        /\ Range(dfa_states) \subseteq DfaReach({dfa_start})

\* a finished DFA of an automaton with an unreachable state that has
\* transitions of its own
C9_Witness ==
    /\ pc = "done"
    /\ Len(dfa_states) >= 2
    /\ \E q \in Range(states) :
           /\ q \notin EnfaReach({start_state})
           /\ \E k \in DOMAIN nfa_no_e : k[1] = q
           /\ \A X \in Range(dfa_states) : q \notin X

\* ------------------------------------------------------------------ C10

NoRepeat(seq) == \A i, j \in DOMAIN seq : seq[i] = seq[j] => i = j

\* C10: no composite state occurs twice in dfa_states, none is put on the
\* worklist twice, none is taken from it twice, and when the loop has ended
\* every source and destination of dfa_trans is in dfa_states.
C10_Deduplicated ==
    /\ NoRepeat(dfa_states)
    /\ NoRepeat(enqueued)
    /\ NoRepeat(dequeued)
    /\ pc = "done" =>
          \A k \in DOMAIN dfa_trans :
              k[1] \in Range(dfa_states) /\ dfa_trans[k] \in Range(dfa_states)

\* a finished DFA in which a candidate met an already discovered state that
\* is not the state being scanned
C10_Witness ==
    /\ pc = "done"
    /\ Len(dfa_states) >= 3
    /\ \E k \in DOMAIN dfa_trans : \E i, j \in DOMAIN dfa_states :
           /\ dfa_states[i] = k[1]
           /\ dfa_states[j] = dfa_trans[k]
           /\ j < i

\* ------------------------------------------------------------------ C2

\* the positions of enqueued whose state had not been taken from the
\* worklist before the latest pop
PendingAtPop ==
    {i \in DOMAIN enqueued :
        enqueued[i] \notin Range(SubSeq(dequeued, 1, Len(dequeued) - 1))}

JustPopped == pc = "dfa_scan" /\ ai = 1

\* one dequeued state X scanned over the alphabet in declared order, from
\* symbol i on: the discovered list and the worklist afterwards
RECURSIVE ScanFrom(_, _, _, _)
ScanFrom(X, i, disc, work) ==
    IF i > Len(alphabet) THEN <<disc, work>>
    ELSE LET a == alphabet[i]
             nxt == UNION {DictGet(nfa_no_e, <<s, a>>) : s \in X}
         IN IF a # EPS /\ nxt # {} /\ nxt \notin Range(disc)
            THEN ScanFrom(X, i + 1, Append(disc, nxt), Append(work, nxt))
            ELSE ScanFrom(X, i + 1, disc, work)

\* the discovery order of a traversal that serves the worklist first-in-
\* first-out (fifo) or last-in-first-out
RECURSIVE Discovery(_, _, _)
Discovery(disc, work, fifo) ==
    IF work = <<>> THEN disc
    ELSE LET i == IF fifo THEN 1 ELSE Len(work)
             r == ScanFrom(work[i], 1, disc,
                           SubSeq(work, 1, i - 1) \o SubSeq(work, i + 1, Len(work)))
         IN Discovery(r[1], r[2], fifo)

\* C2 as stated: the state dequeued is always the earliest-enqueued state
\* not yet processed, and dfa_states is the breadth-first discovery order.
C2_Original ==
    /\ JustPopped => \A i \in PendingAtPop :
                        \A j \in DOMAIN enqueued : enqueued[j] = S => j <= i
    /\ pc = "done" =>
          dfa_states = Discovery(<<{start_state}>>, <<{start_state}>>, TRUE)
    /\ pc \in {"dfa_loop", "dfa_scan", "done"} => dfa_states = enqueued

\* C2 amended: the worklist is served last-in-first-out (the state dequeued
\* is always the latest-enqueued state not yet processed), the alphabet is
\* scanned in its declared order at each dequeued state, and dfa_states
\* lists the composite states in the order they are first enqueued by that
\* traversal.
C2_LifoDiscovery ==
    /\ JustPopped => \A i \in PendingAtPop :
                        \A j \in DOMAIN enqueued : enqueued[j] = S => j >= i
    /\ pc = "done" =>
          dfa_states = Discovery(<<{start_state}>>, <<{start_state}>>, FALSE)
    /\ pc \in {"dfa_loop", "dfa_scan", "done"} => dfa_states = enqueued

\* a finished traversal of at least three composite states that took a
\* later-enqueued state before an earlier one
C2_Witness ==
    /\ pc = "done"
    /\ Len(dequeued) >= 3
    /\ dequeued # enqueued
    /\ Range(dequeued) = Range(enqueued)

\* ------------------------------------------------------------------ C5

RECURSIVE Pow2(_)
Pow2(n) == IF n = 0 THEN 1 ELSE 2 * Pow2(n - 1)

\* C5: the conversion of every validated automaton terminates: every call
\* of epsilon_closure_of empties its stack, the worklist becomes empty and
\* the script reaches its end, after at most one pop per subset of the
\* state set.
C5_Terminates ==
    /\ <>(pc = "done" /\ unmarked = <<>> /\ stack = <<>>)
    /\ [](pc = "closure_loop" => <>(stack = <<>>))
    /\ [](Len(dequeued) <= Pow2(Len(states)))

\* Example 2 (q0 and q1 on a cycle of the reserved symbol, q0 to itself on
\* a, start q0, finals q1), finished: both states close to {q0,q1}, both are
\* final, and the DFA has a state that leads to itself
C5_Witness ==
    /\ pc = "done"
    /\ states = <<"q0", "q1">>
    /\ enfa = DictOfEdges({<<"q0", EPS, "q1">>, <<"q1", EPS, "q0">>,
                           <<"q0", "a", "q0">>})
    /\ start_state = "q0"
    /\ closures = [s \in {"q0", "q1"} |-> {"q0", "q1"}]
    /\ nfa_finals = {"q0", "q1"}
    /\ \E p, q \in Range(states) :
           p # q /\ q \in DictGet(enfa, <<p, EPS>>) /\ p \in DictGet(enfa, <<q, EPS>>)
    /\ \E k \in DOMAIN dfa_trans : dfa_trans[k] = k[1]

====
